---- MODULE Spec2Model ----
(***************************************************************************)
(* A model of src/src/main.rs: the loot-table rate viewer.                 *)
(*                                                                         *)
(* main() discovers the dungeon tiers, spawns one background listing job   *)
(* per element of the tier list, and then loops: read a key, resolve the   *)
(* key's file listing (joining the job or reading ron_cache), look the     *)
(* tier up in rate_cache or compute the rates of its files in parallel,    *)
(* publish and print.                                                      *)
(*                                                                         *)
(* Strings on which the program computes (tier names, keys, input lines,   *)
(* item bodies, display names) are sequences of one-character strings.     *)
(* The one-character strings "WU", "DAO", "JU", "BAO" stand for the CJK    *)
(* characters of the source's literals (lines 108, 215, 216, 227).         *)
(* File names and item identifiers are only compared and are atoms.        *)
(***************************************************************************)
EXTENDS Integers, Sequences, FiniteSets, TLC

VARIABLES
    pc,          \* position of main: get_tiers, prefetch, read, resolve, rate, compute, print, exited, panicked
    tiers,       \* line 24: the Vec<String> get_tiers returned
    index,       \* line 32: the position of the prefetch loop in tiers (1-based)
    jobs,        \* the tasks spawned at line 48, by position of their tier in tiers
    ron_future,  \* line 26: key -> JoinHandle (the job's position)
    ron_cache,   \* line 27: key -> Option<(tier, rons)>
    rate_cache,  \* line 28: tier -> Vec<(ron, Vec<(weight, percentage, name)>)>
    choice,      \* line 65: the trimmed input line of the current query
    tier,        \* line 69: the tier the query resolved
    rons,        \* line 69: the file list the query resolved
    work,        \* lines 93-114: the slots of the parallel computation, kept until the table is printed
    rate,        \* line 90: the table the query prints
    net,         \* remote calls performed so far: [list: tier -> n, file: n, item: n, fault: n]
    hist         \* what each recognized key and tier returned first: [files: key -> Option, rates: tier -> Option]

vars == <<pc, tiers, index, jobs, ron_future, ron_cache, rate_cache,
          choice, tier, rons, work, rate, net, hist>>

-----------------------------------------------------------------------------
(* Bounds of the model.                                                    *)

MaxTiers == 2       \* longest tier list get_tiers returns
MaxFaults == 1      \* remote calls that fail in one run
MaxEntries == 2     \* longest loot table drawn for the rate computation
MaxWeight == 3      \* largest loot weight drawn for the rate computation

-----------------------------------------------------------------------------
(* Option<T>, Default::default() and maps.                                 *)

None == <<>>
Some(v) == <<v>>
IsSome(o) == Len(o) = 1
Unwrap(o) == o[1]

EmptyStr == <<>>
DefaultValue == <<EmptyStr, <<>>>>      \* (String, Vec<String>)::default()

\* a removal that leaves the key in the map
MapRemoveNothing(m, k) == m

EmptyMap == [k \in {} |-> None]
MapInsert(m, k, v) == [x \in DOMAIN m \cup {k} |-> IF x = k THEN v ELSE m[x]]
MapRemove(m, k) == [x \in DOMAIN m \ {k} |-> m[x]]

RECURSIVE SeqSum(_)
SeqSum(s) == IF s = <<>> THEN 0 ELSE Head(s) + SeqSum(Tail(s))

Pow2(n) == 2 ^ n

-----------------------------------------------------------------------------
(* Strings: split, parse::<i32>, format!, trim.                            *)

Digits == <<"0", "1", "2", "3", "4", "5", "6", "7", "8", "9">>
IsDigit(c) == \E d \in 1..10 : Digits[d] = c
DigitVal(c) == (CHOOSE d \in 1..10 : Digits[d] = c) - 1

Contains(s, c) == \E i \in 1..Len(s) : s[i] = c

\* positions of the separator c in s, with 0 and Len(s)+1 as the outer fences
Fences(s, c) == {0, Len(s) + 1} \cup {i \in 1..Len(s) : s[i] = c}

\* s.split(c).collect::<Vec<&str>>()[n], n counted from 0 (line 34 reads n = 1)
SplitNth(s, c, n) ==
    LET f == Fences(s, c)
        lo == CHOOSE a \in f : Cardinality({b \in f : b < a}) = n
        hi == CHOOSE a \in f : Cardinality({b \in f : b < a}) = n + 1
    IN SubSeq(s, lo + 1, hi - 1)

\* str::parse::<i32>() of a digit string; the values of the model are far
\* below i32::MAX.  A string that is empty or holds a non-digit is an Err.
ParsesAsInt(s) == s # <<>> /\ \A i \in 1..Len(s) : IsDigit(s[i])

RECURSIVE ParseInt(_)
ParseInt(s) ==
    IF s = <<>> THEN 0
    ELSE 10 * ParseInt(SubSeq(s, 1, Len(s) - 1)) + DigitVal(s[Len(s)])

\* format!("{}", n) for n >= 0
RECURSIVE IntToStr(_)
IntToStr(n) ==
    IF n < 10 THEN <<Digits[n + 1]>>
    ELSE IntToStr(n \div 10) \o <<Digits[(n % 10) + 1]>>

IsSpace(c) == c \in {" ", "\n", "\t", "\r"}

RECURSIVE TrimStart(_)
TrimStart(s) == IF s # <<>> /\ IsSpace(Head(s)) THEN TrimStart(Tail(s)) ELSE s

RECURSIVE TrimEnd(_)
TrimEnd(s) ==
    IF s # <<>> /\ IsSpace(s[Len(s)]) THEN TrimEnd(SubSeq(s, 1, Len(s) - 1)) ELSE s

\* str::trim (line 65)
Trim(s) == TrimEnd(TrimStart(s))

-----------------------------------------------------------------------------
(* Lines 33-38: the key under which a tier is offered and cached.          *)

\* line 35 unwraps the parse: a tier whose second segment is no integer panics
KeyPanics(t) == Contains(t, "-") /\ ~ParsesAsInt(SplitNth(t, "-", 1))

TierKey(t) ==
    IF Contains(t, "-")
    THEN <<"T">> \o IntToStr(ParseInt(SplitNth(t, "-", 1)) + 1)
    ELSE t

-----------------------------------------------------------------------------
(* f32 arithmetic of line 107.  Loot weights are drawn from the small      *)
(* non-negative integers, which f32 holds exactly, so a weight and a sum   *)
(* of weights (line 100) are integers.  A quotient or product is rounded   *)
(* to the 24-bit significand, ties to even: the finite value m / 2^k is    *)
(* the record [cls |-> "fin", m, k] with 2^23 <= m < 2^24; zero has m = 0. *)

F32Bits == 24

NaN == [cls |-> "nan", m |-> 0, k |-> 0]
Inf == [cls |-> "inf", m |-> 0, k |-> 0]
F32Zero == [cls |-> "fin", m |-> 0, k |-> 0]

\* n / 2^s rounded to an integer, ties to even
RoundShift(n, s) ==
    LET d == Pow2(s)
        fl == n \div d
        r == n % d
    IN IF 2 * r > d \/ (2 * r = d /\ fl % 2 = 1) THEN fl + 1 ELSE fl

\* a / b rounded to an integer, ties to even
RoundDiv(a, b) ==
    LET fl == a \div b
        r == a % b
    IN IF 2 * r > b \/ (2 * r = b /\ fl % 2 = 1) THEN fl + 1 ELSE fl

\* the significand carried out of its range by rounding up
Renorm(m, k) ==
    IF m = Pow2(F32Bits) THEN [cls |-> "fin", m |-> Pow2(F32Bits - 1), k |-> k - 1]
    ELSE [cls |-> "fin", m |-> m, k |-> k]

\* least k >= k0 with a * 2^k >= 2^23 * b
RECURSIVE DivScale(_, _, _)
DivScale(a, b, k) ==
    IF a * Pow2(k) >= Pow2(F32Bits - 1) * b THEN k ELSE DivScale(a, b, k + 1)

\* the f32 quotient a / b of integers 0 <= a <= b, b > 0
F32Div(a, b) ==
    IF a = 0 THEN F32Zero
    ELSE LET k == DivScale(a, b, 0)
         IN Renorm(RoundDiv(a * Pow2(k), b), k)

\* least s >= s0 with n < 2^(24 + s)
RECURSIVE MulShift(_, _)
MulShift(n, s) == IF n \div Pow2(s) < Pow2(F32Bits) THEN s ELSE MulShift(n, s + 1)

\* the f32 product of the float x and the small integer c (100.0 at line 107)
F32Mul(x, c) ==
    IF x.cls # "fin" THEN x
    ELSE IF x.m = 0 THEN F32Zero
    ELSE LET n == x.m * c
             s == MulShift(n, 0)
         IN Renorm(RoundShift(n, s), x.k - s)

\* the fraction left unscaled
PercentageFraction(w, weight) ==
    IF weight = 0
    THEN IF w = 0 THEN NaN ELSE Inf
    ELSE F32Div(w, weight)

\* line 107: (loot.0 / weight) * 100.0
PercentageOf(w, weight) ==
    IF weight = 0
    THEN IF w = 0 THEN NaN ELSE Inf
    ELSE F32Mul(F32Div(w, weight), 100)

\* line 107 for every weight and every total weight of a loot table
Percentages ==
    [w \in 0..MaxWeight, weight \in 0..(MaxEntries * MaxWeight) |-> PercentageOf(w, weight)]

\* line 107 as line 107 is reached: for a weight of a table and its total
Percentage(w, weight) == Percentages[w, weight]

-----------------------------------------------------------------------------
(* Lines 14-20 and 209-231: LootSpec and parse_name.                       *)

Item(id) == [tag |-> "Item", id |-> id]
ItemQuantity(id, min, max) == [tag |-> "ItemQuantity", id |-> id, min |-> min, max |-> max]
LootTable(id) == [tag |-> "LootTable", id |-> id]
Nothing == [tag |-> "Nothing"]

Ok(v) == [ok |-> TRUE, val |-> v]
Err == [ok |-> FALSE]

WU == <<"WU">>                     \* the one-character literal of lines 108, 216, 227
DAOJUBAO == <<"DAO", "JU", "BAO">>  \* the three-character literal of line 215

Quote == "\""

\* String::replace("\"", "") of line 226
NotQuote(c) == c # Quote
StripQuotes(s) == SelectSeq(s, NotQuote)

\* the regex "\".*?\"" of line 224, matched from a quote on: the position
\* of the first quote at or after j, 0 when a line feed or the end of the
\* body comes first (the dot matches no line feed)
RECURSIVE MatchEnd(_, _)
MatchEnd(body, j) ==
    IF j > Len(body) THEN 0
    ELSE IF body[j] = "\n" THEN 0
    ELSE IF body[j] = Quote THEN j
    ELSE MatchEnd(body, j + 1)

\* the leftmost match that starts at or after i, None when there is none
RECURSIVE FirstMatch(_, _)
FirstMatch(body, i) ==
    IF i > Len(body) THEN None
    ELSE IF body[i] = Quote /\ MatchEnd(body, i + 1) # 0
         THEN Some(SubSeq(body, i, MatchEnd(body, i + 1)))
    ELSE FirstMatch(body, i + 1)

\* Regex::captures (line 225): the leftmost match, None when there is none
Captures(body) == FirstMatch(body, 1)

\* format!(" ({} ~ {})", min, max)
RangeSuffix(min, max) ==
    <<" ", "(">> \o IntToStr(min) \o <<" ", "~", " ">> \o IntToStr(max) \o <<")">>

\* a resolver that appends the quantity range to the name of an ItemQuantity
parse_name_with_range(loot, fetch) ==
    CASE loot.tag = "LootTable" -> Ok(DAOJUBAO)
      [] loot.tag = "Nothing" -> Ok(WU)
      [] OTHER ->
           IF ~fetch.ok THEN Err
           ELSE LET v == Captures(fetch.val)
                    name == IF IsSome(v) THEN StripQuotes(Unwrap(v)) ELSE WU
                IN Ok(IF loot.tag = "ItemQuantity"
                      THEN name \o RangeSuffix(loot.min, loot.max)
                      ELSE name)

\* parse_name(loot), given what reqwest::blocking::get(url)?.text()? of line
\* 222 yields for the item: Err, or Ok(body)
parse_name(loot, fetch) ==
    CASE loot.tag = "LootTable" -> Ok(DAOJUBAO)
      [] loot.tag = "Nothing" -> Ok(WU)
      [] OTHER ->
           IF ~fetch.ok THEN Err
           ELSE LET v == Captures(fetch.val)
                IN Ok(IF IsSome(v) THEN StripQuotes(Unwrap(v)) ELSE WU)

\* parse_name performs a remote call only for the two item variants
NeedsFetch(loot) == loot.tag \in {"Item", "ItemQuantity"}

\* Result::unwrap_or of line 108
UnwrapOr(r, d) == IF r.ok THEN r.val ELSE d

-----------------------------------------------------------------------------
(* Lines 93-114: the rates of one file and the parallel collects.          *)

\* a collect that yields the results in the order they were completed
CollectAsCompleted(results, order) == [n \in 1..Len(order) |-> results[order[n]]]

\* rayon's collect of an indexed parallel iterator (lines 111, 114): the
\* results by position in the input, whatever the order of completion
Collect(results, order) == results

\* lines 96-99: the entries of a file, empty when parse failed
LootsOf(parsed) == IF parsed.ok THEN parsed.val ELSE <<>>

\* line 100
TotalWeight(loots) == SeqSum([j \in 1..Len(loots) |-> loots[j][1]])

\* lines 105-109: the rate entry of one loot, given parse_name's result
RateEntry(loot, weight, name) ==
    <<loot[1], Percentage(loot[1], weight), UnwrapOr(name, WU)>>

\* a closure that gives up the file's table when one name resolution fails
FileRatesAbort(ron, parsed, names, order) ==
    LET loots == LootsOf(parsed)
        weight == TotalWeight(loots)
    IN IF \E j \in 1..Len(loots) : ~names[j].ok
       THEN <<ron, <<>>>>
       ELSE <<ron, Collect([j \in 1..Len(loots) |-> RateEntry(loots[j], weight, names[j])], order)>>

\* lines 95-113: the closure applied to one file
FileRates(ron, parsed, names, order) ==
    LET loots == LootsOf(parsed)
        weight == TotalWeight(loots)
    IN <<ron, Collect([j \in 1..Len(loots) |-> RateEntry(loots[j], weight, names[j])], order)>>

-----------------------------------------------------------------------------
(* The remote side: what the listings, the files and the item definitions  *)
(* hold.  Every remote call can also fail, MaxFaults times in a run.       *)

MaxFiles == 2         \* longest listing get_rons returns
MaxThreads == 2       \* most threads the rayon pool has when a call hangs

\* get_tiers (lines 137-162): the last path segment of each matching link
TierNames == {<<"t", "-", "0">>, <<"b", "-", "0">>, <<"m">>, <<"t", "-", "x">>}
TierLists == UNION {[1..n -> TierNames] : n \in 0..MaxTiers}

\* get_rons (lines 164-192): the last path segment of each *.ron link
Rons == {"a.ron", "b.ron"}
Listings == UNION {[1..n -> Rons] : n \in 0..MaxFiles}

\* the body of a loot-table file as ron::de::from_str decodes it (line 204)
DocOf(t, ron) ==
    IF ron = "a.ron"
    THEN <<<<1, Item("x")>>, <<3, ItemQuantity("y", 2, 5)>>>>
    ELSE <<<<0, LootTable("z")>>, <<0, Nothing>>>>

\* the body of an item definition (line 222)
BodyOf(id) ==
    IF id = "x"
    THEN <<"(", Quote, "A", "b", Quote, ")">>
    ELSE <<Quote, "\n", Quote, "C", Quote, ",", Quote, "d", Quote>>

\* the lines read_line yields (line 62); the empty line is end of input
QueryLines == {<<"T", "1", "\n">>, <<" ", "m", "\r", "\n">>, <<"T", "9", "\n">>, <<>>}

MayFail == net.fault < MaxFaults

Called(n, what) == [n EXCEPT ![what] = @ + 1]
Faulted(n) == [n EXCEPT !.fault = @ + 1]

-----------------------------------------------------------------------------
(* The state after construction, and lines 24-54: discovery and prefetch.  *)

NoWork == [files |-> <<>>, order |-> <<>>, hung |-> {}, pool |-> None]

Init ==
    /\ pc = "get_tiers"
    /\ tiers = <<>>
    /\ index = 1
    /\ jobs = <<>>
    /\ ron_future = EmptyMap
    /\ ron_cache = EmptyMap
    /\ rate_cache = EmptyMap
    /\ choice = EmptyStr
    /\ tier = EmptyStr
    /\ rons = <<>>
    /\ work = NoWork
    /\ rate = <<>>
    /\ net = [list |-> [t \in TierNames |-> 0], file |-> 0, item |-> 0, fault |-> 0]
    /\ hist = [files |-> EmptyMap, rates |-> EmptyMap]

\* line 24, get_tiers().await? succeeds
GetTiers ==
    /\ pc = "get_tiers"
    /\ \E ts \in TierLists :
        /\ tiers' = ts
        /\ pc' = IF ts = <<>> THEN "read" ELSE "prefetch"
    /\ UNCHANGED <<index, jobs, ron_future, ron_cache, rate_cache, choice, tier,
                   rons, work, rate, net, hist>>

\* line 24, get_tiers().await? fails: main returns the error
GetTiersFails ==
    /\ pc = "get_tiers"
    /\ pc' = "exited"
    /\ UNCHANGED <<tiers, index, jobs, ron_future, ron_cache, rate_cache, choice,
                   tier, rons, work, rate, net, hist>>

\* the JoinHandle tokio::spawn returns (line 48) for the task of tiers[i]
SpawnJob(js, t) == Append(js, [tier |-> t, state |-> "running", rons |-> <<>>])

\* lines 46-52: ron_future.insert(key, handle); a handle already stored
\* under the key is dropped, which detaches its task
InsertFuture(m, key, handle) == MapInsert(m, key, handle)

\* lines 32-54, one iteration of the loop
Prefetch ==
    /\ pc = "prefetch"
    /\ LET t == tiers[index] IN
        IF KeyPanics(t)
        THEN /\ pc' = "panicked"
             /\ UNCHANGED <<index, jobs, ron_future, ron_cache>>
        ELSE /\ jobs' = SpawnJob(jobs, t)
             /\ ron_future' = InsertFuture(ron_future, TierKey(t), Len(jobs) + 1)
             /\ ron_cache' = MapInsert(ron_cache, TierKey(t), None)
             /\ index' = index + 1
             /\ pc' = IF index = Len(tiers) THEN "read" ELSE "prefetch"
    /\ UNCHANGED <<tiers, rate_cache, choice, tier, rons, work, rate, net, hist>>

Running == pc \notin {"get_tiers", "exited", "panicked"}

\* a task that stores its listing in ron_cache itself
JobListsCaches(j) ==
    /\ Running
    /\ j \in 1..Len(jobs)
    /\ jobs[j].state = "running"
    /\ \E l \in Listings :
        /\ jobs' = [jobs EXCEPT ![j] = [@ EXCEPT !.state = "ok", !.rons = l]]
        /\ ron_cache' = MapInsert(ron_cache, TierKey(jobs[j].tier),
                                  Some(<<jobs[j].tier, l>>))
    /\ net' = [net EXCEPT !.list[jobs[j].tier] = @ + 1]
    /\ UNCHANGED <<pc, tiers, index, ron_future, rate_cache, choice,
                   tier, rons, work, rate, hist>>

\* lines 48-51: the task's get_rons returns Ok(rons)
JobLists(j) ==
    /\ Running
    /\ j \in 1..Len(jobs)
    /\ jobs[j].state = "running"
    /\ \E l \in Listings :
        jobs' = [jobs EXCEPT ![j] = [@ EXCEPT !.state = "ok", !.rons = l]]
    /\ net' = [net EXCEPT !.list[jobs[j].tier] = @ + 1]
    /\ UNCHANGED <<pc, tiers, index, ron_future, ron_cache, rate_cache, choice,
                   tier, rons, work, rate, hist>>

\* a failed listing that takes the whole process down
JobPanicsAborts(j) ==
    /\ Running
    /\ j \in 1..Len(jobs)
    /\ jobs[j].state = "running"
    /\ MayFail
    /\ jobs' = [jobs EXCEPT ![j] = [@ EXCEPT !.state = "panicked"]]
    /\ net' = Faulted([net EXCEPT !.list[jobs[j].tier] = @ + 1])
    /\ pc' = "panicked"
    /\ UNCHANGED <<tiers, index, ron_future, ron_cache, rate_cache, choice,
                   tier, rons, work, rate, hist>>

\* line 49: get_rons returns Err and the unwrap panics inside the task
JobPanics(j) ==
    /\ Running
    /\ j \in 1..Len(jobs)
    /\ jobs[j].state = "running"
    /\ MayFail
    /\ jobs' = [jobs EXCEPT ![j] = [@ EXCEPT !.state = "panicked"]]
    /\ net' = Faulted([net EXCEPT !.list[jobs[j].tier] = @ + 1])
    /\ UNCHANGED <<pc, tiers, index, ron_future, ron_cache, rate_cache, choice,
                   tier, rons, work, rate, hist>>

-----------------------------------------------------------------------------
(* Lines 56-134: the session loop.                                         *)

\* lines 60-65: a line is read and trimmed
ReadLine ==
    /\ pc = "read"
    /\ \E line \in QueryLines : choice' = Trim(line)
    /\ pc' = "resolve"
    /\ UNCHANGED <<tiers, index, jobs, ron_future, ron_cache, rate_cache, tier,
                   rons, work, rate, net, hist>>

\* a join that returns once every task has ended
JoinedAll(future, js, key) == \A j \in 1..Len(js) : js[j].state # "running"

\* line 71: join.await returns once the task has ended
Joined(future, js, key) == key \in DOMAIN future => js[future[key]].state # "running"

\* lines 71-74: the task's value, or the default when the task panicked
JoinValue(job) == IF job.state = "ok" THEN <<job.tier, job.rons>> ELSE DefaultValue

\* a resolution that answers a key it does not hold with a listing it holds
ResolveFilesAnyKey(future, cache, js, key) ==
    IF key \in DOMAIN future
    THEN JoinValue(js[future[key]])
    ELSE IF \E k \in DOMAIN cache : IsSome(cache[k])
         THEN Unwrap(cache[CHOOSE k \in DOMAIN cache : IsSome(cache[k])])
         ELSE DefaultValue

\* lines 69-88: the (tier, rons) a key resolves to
ResolveFiles(future, cache, js, key) ==
    IF key \in DOMAIN future
    THEN JoinValue(js[future[key]])
    ELSE IF key \in DOMAIN cache /\ IsSome(cache[key])
         THEN Unwrap(cache[key])
         ELSE DefaultValue

\* a lookup that never hits
RateHitNever(cache, t) == FALSE

\* line 90: rate_cache.get(&tier) is Some
RateHit(cache, t) == t \in DOMAIN cache

\* lines 93-95: one slot per file of the listing, none started
StartWork(rs) ==
    [files |-> [i \in 1..Len(rs) |->
                   [parsed |-> None, names |-> <<>>, fetched |-> <<>>, norder |-> <<>>]],
     order |-> <<>>, hung |-> {}, pool |-> None]

\* what each key and tier returned first
FirstOf(m, k, v) == IF k \in DOMAIN m THEN m ELSE MapInsert(m, k, v)

\* lines 69-92: resolve the key's listing, then look the tier up in rate_cache
Resolve ==
    /\ pc = "resolve"
    /\ Joined(ron_future, jobs, choice)
    /\ LET value == ResolveFiles(ron_future, ron_cache, jobs, choice)
           joins == choice \in DOMAIN ron_future
       IN /\ ron_future' = IF joins THEN MapRemove(ron_future, choice) ELSE ron_future
          /\ ron_cache' = IF joins THEN MapInsert(ron_cache, choice, Some(value))
                          ELSE ron_cache
          /\ tier' = value[1]
          /\ rons' = value[2]
          /\ hist' = IF choice \in DOMAIN ron_cache
                     THEN [hist EXCEPT !.files = FirstOf(@, choice, value)]
                     ELSE hist
          /\ IF RateHit(rate_cache, value[1])
             THEN /\ rate' = rate_cache[value[1]]
                  /\ work' = NoWork
                  /\ pc' = "print"
             ELSE /\ rate' = <<>>
                  /\ work' = StartWork(value[2])
                  /\ pc' = "compute"
    /\ UNCHANGED <<tiers, index, jobs, rate_cache, choice, net>>

\* lines 93-113 run on rayon's global pool, a fixed number of threads; the
\* calls of lines 203 and 222 are blocking, so a call that never returns
\* keeps its thread.  work.hung holds the units whose call hangs: <<i, 0>>
\* for the fetch of file i, <<i, j>> for the fetch of entry j's item.  The
\* size of the pool is an input of the run that first matters when a call
\* hangs: it is drawn then and kept in work.pool.
ThreadFree(w) == IF w.pool = None THEN TRUE ELSE Cardinality(w.hung) < Unwrap(w.pool)

\* unit u hangs in a pool of n threads: n is the size the pool already
\* has, or any size when no call has hung before
HangsIn(w, u, n) ==
    /\ w.pool \in {None, Some(n)}
    /\ work' = [w EXCEPT !.hung = @ \cup {u}, !.pool = Some(n)]

\* a slot whose closure (lines 95-113) has returned
FileDone(slot) ==
    /\ IsSome(slot.parsed)
    /\ \A j \in 1..Len(slot.names) : IsSome(slot.names[j])

\* lines 194-207: parse(tier, ron) is Ok(loots), or Err when the fetch or
\* the decoding fails
parse(t, ron, failed) == IF failed THEN Err ELSE Ok(DocOf(t, ron))

\* line 96, in the closure of file i: parse(&tier, &ron)
ParseFile(i) ==
    /\ pc = "compute"
    /\ i \in 1..Len(work.files)
    /\ ~IsSome(work.files[i].parsed)
    /\ <<i, 0>> \notin work.hung
    /\ ThreadFree(work)
    /\ \E failed \in {FALSE, MayFail} :
        LET r == parse(tier, rons[i], failed)
            n == Len(LootsOf(r))
        IN /\ work' = [work EXCEPT
                          !.files[i] = [parsed |-> Some(r),
                                        names |-> [j \in 1..n |-> None],
                                        fetched |-> [j \in 1..n |-> None],
                                        norder |-> <<>>],
                          !.order = IF n = 0 THEN Append(@, i) ELSE @]
           /\ net' = IF failed THEN Faulted(Called(net, "file")) ELSE Called(net, "file")
    /\ UNCHANGED <<pc, tiers, index, jobs, ron_future, ron_cache, rate_cache,
                   choice, tier, rons, rate, hist>>

\* line 108, in the closure of entry j of file i: parse_name(&loot.1)
ResolveName(i, j) ==
    /\ pc = "compute"
    /\ i \in 1..Len(work.files)
    /\ IsSome(work.files[i].parsed)
    /\ j \in 1..Len(work.files[i].names)
    /\ ~IsSome(work.files[i].names[j])
    /\ <<i, j>> \notin work.hung
    /\ ThreadFree(work)
    /\ LET slot == work.files[i]
           loot == LootsOf(Unwrap(slot.parsed))[j][2]
       IN \E failed \in {FALSE, MayFail /\ NeedsFetch(loot)} :
          \E fetch \in {IF failed \/ ~NeedsFetch(loot) THEN Err ELSE Ok(BodyOf(loot.id))} :
          \E name \in {parse_name(loot, fetch)} :
            LET after == [slot EXCEPT !.names[j] = Some(name),
                                      !.fetched[j] = Some(fetch),
                                      !.norder = Append(@, j)]
            IN /\ work' = [work EXCEPT
                              !.files[i] = after,
                              !.order = IF FileDone(after) THEN Append(@, i) ELSE @]
               /\ net' = IF ~NeedsFetch(loot) THEN net
                         ELSE IF failed THEN Faulted(Called(net, "item"))
                         ELSE Called(net, "item")
    /\ UNCHANGED <<pc, tiers, index, jobs, ron_future, ron_cache, rate_cache,
                   choice, tier, rons, rate, hist>>

\* line 203, in the closure of file i: the blocking get never returns
HangFile(i) ==
    /\ pc = "compute"
    /\ i \in 1..Len(work.files)
    /\ ~IsSome(work.files[i].parsed)
    /\ <<i, 0>> \notin work.hung
    /\ ThreadFree(work)
    /\ MayFail
    /\ \E n \in 1..MaxThreads : HangsIn(work, <<i, 0>>, n)
    /\ net' = Faulted(Called(net, "file"))
    /\ UNCHANGED <<pc, tiers, index, jobs, ron_future, ron_cache, rate_cache,
                   choice, tier, rons, rate, hist>>

\* line 222, in the closure of entry j of file i: the blocking get never
\* returns
HangName(i, j) ==
    /\ pc = "compute"
    /\ i \in 1..Len(work.files)
    /\ IsSome(work.files[i].parsed)
    /\ j \in 1..Len(work.files[i].names)
    /\ ~IsSome(work.files[i].names[j])
    /\ <<i, j>> \notin work.hung
    /\ ThreadFree(work)
    /\ MayFail
    /\ NeedsFetch(LootsOf(Unwrap(work.files[i].parsed))[j][2])
    /\ \E n \in 1..MaxThreads : HangsIn(work, <<i, j>>, n)
    /\ net' = Faulted(Called(net, "item"))
    /\ UNCHANGED <<pc, tiers, index, jobs, ron_future, ron_cache, rate_cache,
                   choice, tier, rons, rate, hist>>

\* a result that leaves out the files whose parse failed
ComputedRatesDropFailed(rs, w) ==
    LET all == [i \in 1..Len(rs) |->
                  FileRates(rs[i], Unwrap(w.files[i].parsed),
                            [j \in 1..Len(w.files[i].names) |-> Unwrap(w.files[i].names[j])],
                            w.files[i].norder)]
        kept == {i \in 1..Len(rs) : Unwrap(w.files[i].parsed).ok}
    IN [n \in 1..Cardinality(kept) |->
          all[CHOOSE i \in kept : Cardinality({x \in kept : x < i}) = n - 1]]

\* lines 93-114: the collected result of the finished slots
ComputedRates(rs, w) ==
    Collect([i \in 1..Len(rs) |->
                FileRates(rs[i], Unwrap(w.files[i].parsed),
                          [j \in 1..Len(w.files[i].names) |-> Unwrap(w.files[i].names[j])],
                          w.files[i].norder)],
            w.order)

\* a table stored under the default tier, whatever tier it was computed for
PublishRatesUnderDefault(cache, t, result) == MapInsert(cache, EmptyStr, result)

\* line 115: rate_cache.insert(tier.clone(), rons.clone())
PublishRates(cache, t, result) == MapInsert(cache, t, result)

\* a publication that does not wait for the unfinished slots and stores
\* the tables of the finished ones
PublishPartial ==
    /\ pc = "compute"
    /\ LET kept == {i \in 1..Len(rons) : FileDone(work.files[i])}
           nth(n) == CHOOSE i \in kept : Cardinality({x \in kept : x < i}) = n - 1
           result == [n \in 1..Cardinality(kept) |->
                        FileRates(rons[nth(n)], Unwrap(work.files[nth(n)].parsed),
                                  [j \in 1..Len(work.files[nth(n)].names) |->
                                      Unwrap(work.files[nth(n)].names[j])],
                                  work.files[nth(n)].norder)]
       IN /\ kept # {} \/ rons = <<>>
          /\ rate_cache' = PublishRates(rate_cache, tier, result)
          /\ rate' = result
          /\ hist' = [hist EXCEPT !.rates = FirstOf(@, tier, result)]
    /\ pc' = "print"
    /\ UNCHANGED <<tiers, index, jobs, ron_future, ron_cache, choice, tier, rons,
                   work, net>>

\* lines 114-117: the outer collect returns, the result is published
Publish ==
    /\ pc = "compute"
    /\ \A i \in 1..Len(work.files) : FileDone(work.files[i])
    /\ LET result == ComputedRates(rons, work)
       IN /\ rate_cache' = PublishRates(rate_cache, tier, result)
          /\ rate' = result
          /\ hist' = [hist EXCEPT !.rates = FirstOf(@, tier, result)]
    /\ pc' = "print"
    /\ UNCHANGED <<tiers, index, jobs, ron_future, ron_cache, choice, tier, rons,
                   work, net>>

\* lines 120-133: the table is printed and the loop starts over
Render ==
    /\ pc = "print"
    /\ pc' = "read"
    /\ choice' = EmptyStr
    /\ tier' = EmptyStr
    /\ rons' = <<>>
    /\ rate' = <<>>
    /\ work' = NoWork
    /\ UNCHANGED <<tiers, index, jobs, ron_future, ron_cache, rate_cache, net, hist>>

Next ==
    \/ GetTiers
    \/ GetTiersFails
    \/ Prefetch
    \/ \E j \in 1..MaxTiers : JobLists(j)
    \/ \E j \in 1..MaxTiers : JobPanics(j)
    \/ ReadLine
    \/ Resolve
    \/ \E i \in 1..MaxFiles : ParseFile(i)
    \/ \E i \in 1..MaxFiles : \E j \in 1..MaxEntries : ResolveName(i, j)
    \/ \E i \in 1..MaxFiles : HangFile(i)
    \/ \E i \in 1..MaxFiles : \E j \in 1..MaxEntries : HangName(i, j)
    \/ Publish
    \/ Render

Spec == Init /\ [][Next]_vars

\* line 71: the task whose handle the query at hand awaits ends
AwaitedJob ==
    /\ pc = "resolve"
    /\ choice \in DOMAIN ron_future
    /\ JobLists(ron_future[choice]) \/ JobPanics(ron_future[choice])

\* lines 93-113: a unit of the query at hand whose call returns
UnitStep ==
    \E i \in 1..MaxFiles : ParseFile(i) \/ \E j \in 1..MaxEntries : ResolveName(i, j)

\* The main thread goes on when what it waits for is there (lines 71, 114);
\* the task a query awaits and the calls of its units return, unless they
\* hang (HangFile, HangName).  Nothing is assumed of the other tasks, of the
\* next line of input, or of the printing.
FairSpec ==
    /\ Spec
    /\ WF_vars(Resolve)
    /\ WF_vars(Publish)
    /\ WF_vars(AwaitedJob)
    /\ WF_vars(UnitStep)

-----------------------------------------------------------------------------
(* The rate computation on every small loot table.  The closure of lines   *)
(* 95-113 has parsed an arbitrary document of at most MaxEntries entries   *)
(* with weights up to MaxWeight; every item fetch returns an arbitrary     *)
(* body or fails.                                                          *)

LootSpecs == {Item("x"), ItemQuantity("y", 2, 5), LootTable("z"), Nothing}
Loots == (0..MaxWeight) \X LootSpecs
Docs == UNION {[1..n -> Loots] : n \in 0..MaxEntries}

Bodies == {BodyOf("x"), BodyOf("y"), <<"(", ")">>}
Fetches == {Err} \cup {Ok(b) : b \in Bodies}

M == <<"m">>

RatesInit ==
    /\ pc = "compute"
    /\ tiers = <<M>>
    /\ index = 2
    /\ jobs = <<[tier |-> M, state |-> "ok", rons |-> <<"a.ron">>]>>
    /\ ron_future = EmptyMap
    /\ ron_cache = MapInsert(EmptyMap, M, Some(<<M, <<"a.ron">>>>))
    /\ rate_cache = EmptyMap
    /\ choice = M
    /\ tier = M
    /\ rons = <<"a.ron">>
    /\ \E doc \in Docs :
        work = [files |-> <<[parsed |-> Some(Ok(doc)),
                             names |-> [j \in 1..Len(doc) |-> None],
                             fetched |-> [j \in 1..Len(doc) |-> None],
                             norder |-> <<>>]>>,
                order |-> IF doc = <<>> THEN <<1>> ELSE <<>>,
                hung |-> {}, pool |-> None]
    /\ rate = <<>>
    /\ net = [list |-> [t \in TierNames |-> IF t = M THEN 1 ELSE 0],
              file |-> 1, item |-> 0, fault |-> 0]
    /\ hist = [files |-> MapInsert(EmptyMap, M, <<M, <<"a.ron">>>>), rates |-> EmptyMap]

\* line 108 for every entry of the file: parse_name on what each fetch yields
RatesNames ==
    /\ pc = "compute"
    /\ Len(work.files) = 1
    /\ ~FileDone(work.files[1])
    /\ LET slot == work.files[1]
           loots == LootsOf(Unwrap(slot.parsed))
       IN \E fetches \in [1..Len(loots) -> Fetches] :
            /\ \A j \in 1..Len(loots) : ~NeedsFetch(loots[j][2]) => fetches[j] = Err
            /\ work' = [files |-> <<[slot EXCEPT
                                       !.names = [j \in 1..Len(loots) |->
                                                    Some(parse_name(loots[j][2], fetches[j]))],
                                       !.fetched = [j \in 1..Len(loots) |-> Some(fetches[j])],
                                       !.norder = [j \in 1..Len(loots) |-> j]]>>,
                        order |-> <<1>>, hung |-> {}, pool |-> None]
    /\ UNCHANGED <<pc, tiers, index, jobs, ron_future, ron_cache, rate_cache,
                   choice, tier, rons, rate, net, hist>>

RatesNext ==
    \/ RatesNames
    \/ Publish

RatesSpec == RatesInit /\ [][RatesNext]_vars

-----------------------------------------------------------------------------
(* Properties.                                                             *)

Recognized(key) == key \in DOMAIN ron_cache
InQuery == pc \in {"compute", "print"}
T9 == <<"T", "9">>

\* C1: for every recognized key, resolving the key's file list returns the
\* (tier, files) pair the first resolution returned, and no tier's listing
\* is ever fetched more than once.
C1_ResolveTwiceOneFetch ==
    /\ InQuery /\ Recognized(choice) => <<tier, rons>> = hist.files[choice]
    /\ \A t \in TierNames : net.list[t] <= 1

\* the part of C1 about the results: a recognized key resolves to the pair
\* its first resolution returned
C1_SameResult ==
    InQuery /\ Recognized(choice) => <<tier, rons>> = hist.files[choice]

\* C2: once a tier's table is in rate_cache the entry is never changed or
\* removed and equals the first computation; a query that resolves to the
\* tier goes straight to printing that table, and no file or item fetch is
\* performed while the resolved tier is cached.
C2_WarmCache ==
    [][/\ \A t \in DOMAIN rate_cache :
            /\ t \in DOMAIN rate_cache'
            /\ rate_cache'[t] = rate_cache[t]
            /\ rate_cache[t] = hist.rates[t]
       /\ (pc = "resolve" /\ pc' # "resolve" /\ tier' \in DOMAIN rate_cache) =>
            /\ pc' = "print"
            /\ rate' = hist.rates[tier']
            /\ net'.file = net.file
            /\ net'.item = net.item
       /\ (net'.file # net.file \/ net'.item # net.item) =>
            pc = "compute" /\ tier \notin DOMAIN rate_cache]_vars

\* a warm query: a non-empty table is printed without any computation
C2_Witness ==
    /\ pc = "print"
    /\ work = NoWork
    /\ rate # <<>>
    /\ rate = rate_cache[tier]
    /\ net.file > 0

C4_PrefetchIdempotent ==
    [][/\ \A t \in TierNames :
            Cardinality({j \in 1..Len(jobs') : jobs'[j].tier = t}) <= 1
       /\ (pc = "prefetch" /\ \E i \in 1..(index - 1) : tiers[i] = tiers[index]) =>
            jobs' = jobs /\ ron_future' = ron_future]_vars

\* the query at hand computed its table: the slots are still at hand
Computed == pc = "print" /\ work.files # <<>>
SlotLoots(i) == LootsOf(Unwrap(work.files[i].parsed))
SlotName(i, j) == Unwrap(work.files[i].names[j])
SlotFetch(i, j) == Unwrap(work.files[i].fetched[j])

\* the display name an Item(id) gets from the fetch outcome
ItemName(id, fetch) == UnwrapOr(parse_name(Item(id), fetch), WU)

\* C5 as stated: the name of ItemQuantity(id, min, max) is the resolved
\* display name of id followed by the range suffix " (min ~ max)".
C5_RangeSuffix ==
    Computed =>
        \A i \in 1..Len(rate) : \A j \in 1..Len(rate[i][2]) :
            LET loot == SlotLoots(i)[j][2]
            IN loot.tag = "ItemQuantity" =>
                 rate[i][2][j][3] =
                    ItemName(loot.id, SlotFetch(i, j)) \o RangeSuffix(loot.min, loot.max)

\* C5 amended: the name of ItemQuantity(id, min, max) is the display name
\* Item(id) gets from the same item definition; min and max are ignored and
\* no range suffix is appended.
C5_QuantityIgnored ==
    Computed =>
        \A i \in 1..Len(rate) :
            /\ Len(rate[i][2]) = Len(SlotLoots(i))
            /\ \A j \in 1..Len(rate[i][2]) :
                LET loot == SlotLoots(i)[j][2]
                IN loot.tag = "ItemQuantity" =>
                     rate[i][2][j][3] = ItemName(loot.id, SlotFetch(i, j))

\* an ItemQuantity whose item definition was fetched and holds a quoted name
C5_Witness ==
    /\ Computed
    /\ \E i \in 1..Len(rate) : \E j \in 1..Len(rate[i][2]) :
        /\ SlotLoots(i)[j][2] = ItemQuantity("y", 2, 5)
        /\ SlotFetch(i, j).ok
        /\ rate[i][2][j][3] = <<"C">>

Abs(n) == IF n < 0 THEN -n ELSE n
Max(S) == CHOOSE a \in S : \A b \in S : b <= a

\* the float p is within 1/1000 of the rational n / d: zero when n = 0,
\* else its integer part is within 1 of that of n / d, and then so close
\* that |p.m * d - n * 2^k| <= d * 2^k / 1000
F32Near(p, n, d) ==
    /\ p.cls = "fin"
    /\ IF n = 0 THEN p.m = 0
       ELSE /\ p.m \div Pow2(p.k) \in ((n \div d) - 1)..((n \div d) + 1)
            /\ Abs(p.m * d - n * Pow2(p.k)) <= (d * Pow2(p.k)) \div 1000

\* the float p is the integer n
F32Is(p, n) == p.cls = "fin" /\ p.m = n * Pow2(p.k)

\* the floats of ps add up to 100, within 1/1000
SumNear100(ps) ==
    /\ \A j \in 1..Len(ps) : ps[j].cls = "fin"
    /\ LET K == Max({0} \cup {ps[j].k : j \in 1..Len(ps)})
           S == SeqSum([j \in 1..Len(ps) |-> ps[j].m * Pow2(K - ps[j].k)])
       IN Abs(S - 100 * Pow2(K)) * 1000 <= Pow2(K)

\* C6: in a published file table whose weights add up to more than zero,
\* each percentage is weight / total * 100 and the percentages add up to
\* 100 (within 1/1000); weights 1 and 3 give exactly 25 and 75.
C6_PercentagesSumTo100 ==
    pc = "print" =>
        \A i \in 1..Len(rate) :
            LET es == rate[i][2]
                ws == [j \in 1..Len(es) |-> es[j][1]]
                total == SeqSum(ws)
            IN total > 0 =>
                /\ \A j \in 1..Len(es) : F32Near(es[j][2], 100 * ws[j], total)
                /\ SumNear100([j \in 1..Len(es) |-> es[j][2]])
                /\ ws = <<1, 3>> => F32Is(es[1][2], 25) /\ F32Is(es[2][2], 75)

\* a table of total weight 3 whose percentages are not exact in f32
C6_Witness ==
    /\ pc = "print"
    /\ \E i \in 1..Len(rate) :
        /\ Len(rate[i][2]) = 2
        /\ rate[i][2][1][1] = 1
        /\ rate[i][2][2][1] = 2
        /\ ~F32Is(rate[i][2][1][2], 33)
        /\ rate[i][2][1][2].m > 0

\* C7: the files of the computed table are the files of the listing in the
\* listing's order, and the entries of each file are the loots of its
\* document in the document's order, each with its own weight and name,
\* whatever the order in which the parallel units completed.
C7_StableOrder ==
    Computed =>
        /\ Len(rate) = Len(rons)
        /\ \A i \in 1..Len(rate) :
            /\ rate[i][1] = rons[i]
            /\ Len(rate[i][2]) = Len(SlotLoots(i))
            /\ \A j \in 1..Len(rate[i][2]) :
                /\ rate[i][2][j][1] = SlotLoots(i)[j][1]
                /\ rate[i][2][j][3] = UnwrapOr(SlotName(i, j), WU)

\* the second file completed before the first, and in the first file the
\* second name was resolved before the first
C7_Witness ==
    /\ Computed
    /\ Len(rons) = 2
    /\ rons[1] = "a.ron"
    /\ rons[2] = "b.ron"
    /\ work.order = <<2, 1>>
    /\ work.files[1].norder = <<2, 1>>

\* C8: a file whose fetch or parse failed is in the table with no entries,
\* every other file of the tier has the entries of its document, and the
\* process has not died of it.
C8_ParseFailureEmpty ==
    /\ Computed =>
        /\ Len(rate) = Len(rons)
        /\ \A i \in 1..Len(rate) :
            IF Unwrap(work.files[i].parsed).ok
            THEN /\ rate[i][1] = rons[i]
                 /\ Len(rate[i][2]) = Len(DocOf(tier, rons[i]))
                 /\ \A j \in 1..Len(rate[i][2]) :
                        rate[i][2][j][1] = DocOf(tier, rons[i])[j][1]
            ELSE rate[i] = <<rons[i], <<>>>>
    /\ pc = "panicked" => net.file = 0

\* one file of the tier failed to parse and another has its entries
C8_Witness ==
    /\ Computed
    /\ \E i, n \in 1..Len(rate) :
        /\ ~Unwrap(work.files[i].parsed).ok
        /\ rate[i][2] = <<>>
        /\ Unwrap(work.files[n].parsed).ok
        /\ Len(rate[n][2]) = 2

\* C9: an entry whose name resolution failed is named WU, the sentinel of
\* line 108, and every entry of the file, the failed one included, has its
\* own weight and percentage and, when its resolution succeeded, its
\* resolved name; the process has not died of it.
C9_NameFailureSentinel ==
    /\ Computed =>
        \A i \in 1..Len(rate) :
            /\ Len(rate[i][2]) = Len(SlotLoots(i))
            /\ \A j \in 1..Len(rate[i][2]) :
                LET e == rate[i][2][j]
                    loots == SlotLoots(i)
                    total == SeqSum([n \in 1..Len(loots) |-> loots[n][1]])
                IN /\ e[1] = loots[j][1]
                   /\ e[2] = Percentage(loots[j][1], total)
                   /\ e[3] = IF SlotName(i, j).ok THEN SlotName(i, j).val ELSE WU
    /\ pc = "panicked" => net.item = 0

\* in one file, one item fetch failed and another entry has its name
C9_Witness ==
    /\ Computed
    /\ \E i \in 1..Len(rate) : \E j, n \in 1..Len(rate[i][2]) :
        /\ ~SlotName(i, j).ok
        /\ rate[i][2][j][3] = WU
        /\ SlotName(i, n).ok
        /\ rate[i][2][n][3] \in {<<"A", "b">>, <<"C">>}

-----------------------------------------------------------------------------
(* Recovery, key collisions and the range of the percentages.              *)

\* the process has ended: main returned the error of line 24, or panicked
Terminated == pc \in {"exited", "panicked"}

\* C11: no network failure, malformed document or unknown key ends the
\* session: the process never reaches a terminating state, and every query,
\* whatever its outcome, leads back to the point where the next key is read.
C11_NeverTerminates ==
    /\ ~Terminated
    /\ pc = "print" => ENABLED Render

\* once the first key can be read, no failure of a listing, a file or an
\* item ends the process
C11_LoopNeverEnds ==
    [][(pc \in {"read", "resolve", "compute", "print"}) =>
          (pc' \in {"read", "resolve", "compute", "print"})]_vars

\* C12: two distinct raw tiers never silently share a key of the listing
\* caches: a tier whose key already holds the job of another tier does not
\* replace that job's handle.
C12_CollisionRejected ==
    [][(/\ pc = "prefetch"
        /\ ~KeyPanics(tiers[index])
        /\ TierKey(tiers[index]) \in DOMAIN ron_future
        /\ jobs[ron_future[TierKey(tiers[index])]].tier # tiers[index]) =>
            ron_future' = ron_future]_vars

\* a percentage that is a number between 0 and 100
InPercentRange(p) == p.cls = "fin" /\ 0 <= p.m /\ p.m <= 100 * Pow2(p.k)

\* C13: every percentage stored in a published rate table is a defined
\* number between 0 and 100, the tables of total weight zero included.
C13_PercentagesDefined ==
    \A t \in DOMAIN rate_cache :
        \A i \in 1..Len(rate_cache[t]) :
            \A j \in 1..Len(rate_cache[t][i][2]) :
                InPercentRange(rate_cache[t][i][2][j][2])

\* in a published table whose file has a positive total weight, every
\* percentage is a number between 0 and 100
C13_PositiveWeightDefined ==
    \A t \in DOMAIN rate_cache :
        \A i \in 1..Len(rate_cache[t]) :
            LET es == rate_cache[t][i][2]
            IN SeqSum([j \in 1..Len(es) |-> es[j][1]]) > 0 =>
                 \A j \in 1..Len(es) : InPercentRange(es[j][2])

-----------------------------------------------------------------------------
(* Publication of the rate table and the writers of the caches.            *)

\* C14: the rate cache is written only when every file of the listing has
\* been parsed and every entry's name resolved; the tier's table is written
\* once, whole (one row per file, one entry per loot), and no table already
\* in the cache changes.
C14_PublishedComplete ==
    [][(rate_cache' # rate_cache) =>
          /\ pc = "compute"
          /\ Len(work.files) = Len(rons)
          /\ \A i \in 1..Len(work.files) : FileDone(work.files[i])
          /\ tier \notin DOMAIN rate_cache
          /\ DOMAIN rate_cache' = DOMAIN rate_cache \cup {tier}
          /\ \A t \in DOMAIN rate_cache : rate_cache'[t] = rate_cache[t]
          /\ Len(rate_cache'[tier]) = Len(rons)
          /\ \A i \in 1..Len(rons) :
                /\ rate_cache'[tier][i][1] = rons[i]
                /\ Len(rate_cache'[tier][i][2]) = Len(SlotLoots(i))]_vars

\* a table of two files of two entries each has been published
C14_Witness ==
    /\ Computed
    /\ tier \in DOMAIN rate_cache
    /\ rate_cache[tier] = rate
    /\ Len(rate) = 2
    /\ \A i \in 1..2 : Len(rate[i][2]) = 2

\* C15: a step of a background listing job changes no cache (the in-flight
\* map, the listing cache, the rate cache); every change of a cache is a
\* step of the main path (the startup loop, the resolution of a key, the
\* publication of a table), on which no job changes state.
C15_JobsLeaveCaches ==
    [][/\ (\E j \in 1..Len(jobs) : jobs'[j] # jobs[j]) =>
            /\ ron_future' = ron_future
            /\ ron_cache' = ron_cache
            /\ rate_cache' = rate_cache
       /\ (<<ron_future, ron_cache, rate_cache>>' # <<ron_future, ron_cache, rate_cache>>) =>
            /\ \/ pc = "prefetch" /\ index' = index + 1
               \/ pc = "resolve" /\ pc' \in {"compute", "print"}
               \/ pc = "compute" /\ pc' = "print"
            /\ \A j \in 1..Len(jobs) : jobs'[j] = jobs[j]]_vars

\* a job has finished during the computation of a query while its key is
\* still in flight and its slot of the listing cache still empty
C15_Witness ==
    /\ pc = "compute"
    /\ \E j \in 1..Len(jobs) :
        /\ jobs[j].state = "ok"
        /\ jobs[j].rons # <<>>
        /\ TierKey(jobs[j].tier) \in DOMAIN ron_future
        /\ ron_future[TierKey(jobs[j].tier)] = j
        /\ ron_cache[TierKey(jobs[j].tier)] = None

-----------------------------------------------------------------------------
(* The listing state of the keys and the table a key is answered with.     *)

\* C17: whenever a key is about to be read, every key of the listing cache
\* is in flight exactly when its slot is None, and only keys of the listing
\* cache are in flight; after startup no key enters the in-flight map and
\* the key set of the listing cache does not change.
C17_ListingStates ==
    [][/\ pc = "read" =>
            /\ DOMAIN ron_future \subseteq DOMAIN ron_cache
            /\ \A k \in DOMAIN ron_cache :
                  (k \in DOMAIN ron_future) <=> (ron_cache[k] = None)
       /\ pc \in {"read", "resolve", "compute", "print"} =>
            /\ DOMAIN ron_cache' = DOMAIN ron_cache
            /\ DOMAIN ron_future' \subseteq DOMAIN ron_future]_vars

\* a key is read while one key is still in flight and another is resolved
C17_Witness ==
    /\ pc = "read"
    /\ DOMAIN ron_future # {}
    /\ \E k \in DOMAIN ron_cache : k \notin DOMAIN ron_future /\ IsSome(ron_cache[k])

-----------------------------------------------------------------------------
(* Calls that never return, and the answer to every query.                 *)

\* unit <<i, 0>> (the file) or <<i, j>> (an entry) is neither finished nor hung
Pending(i, j) ==
    /\ pc = "compute"
    /\ i \in 1..Len(work.files)
    /\ <<i, j>> \notin work.hung
    /\ IF j = 0 THEN ~IsSome(work.files[i].parsed)
       ELSE /\ IsSome(work.files[i].parsed)
            /\ j \in 1..Len(work.files[i].names)
            /\ ~IsSome(work.files[i].names[j])

\* C16: a call that never returns blocks its own branch only: a listing job
\* that has not ended can end whatever the other jobs do, and a file or
\* name unit that is not itself hung can complete whichever other units
\* hang.
C16_HangBlocksOnlyItsBranch ==
    /\ \A n \in 1..Len(jobs) :
          (Running /\ jobs[n].state = "running") => ENABLED JobLists(n)
    /\ \A i \in 1..MaxFiles :
          /\ Pending(i, 0) => ENABLED ParseFile(i)
          /\ \A j \in 1..MaxEntries : Pending(i, j) => ENABLED ResolveName(i, j)

\* a listing job that has not ended can end, whatever the other jobs do
C16_JobsIndependent ==
    \A n \in 1..Len(jobs) :
        (Running /\ jobs[n].state = "running") => ENABLED JobLists(n)

\* while fewer calls hang than the pool has threads, every unit that is
\* not itself hung can complete
C16_FreeThreadRuns ==
    (pc = "compute" /\ ThreadFree(work)) =>
        \A i \in 1..MaxFiles :
            /\ Pending(i, 0) => ENABLED ParseFile(i)
            /\ \A j \in 1..MaxEntries : Pending(i, j) => ENABLED ResolveName(i, j)

\* C19: every query that was read is answered, unless a call of its units
\* hangs: it waits for the job of its key and for its units, nothing else.
C19_QueryAnswered == (pc = "resolve") ~> (pc = "print" \/ work.hung # {})

\* a computed table is printed while the job of another key has not ended
C19_Witness ==
    /\ Computed
    /\ rate # <<>>
    /\ \E n \in 1..Len(jobs) : jobs[n].state = "running"
    /\ \E n \in 1..Len(jobs) : jobs[n].state = "ok" /\ TierKey(jobs[n].tier) = choice

====
